---- MODULE Spec2Model ----
(***************************************************************************)
(* Cell-range rendering and key recycling of the react-virtualized fork:   *)
(* ReusableKeyCache (the Key Recycler) and defaultCellRangeRenderer (the   *)
(* Range Renderer), source/Grid/defaultCellRangeRenderer.js, together with *)
(* the second copy of that file kept in the repository, which differs in   *)
(* the object the recycler is attached to and in the direction of the      *)
(* final sort.                                                             *)
(***************************************************************************)
EXTENDS Integers, Sequences, FiniteSets, TLC

(***************************************************************************)
(* Bounds of the model.                                                    *)
(***************************************************************************)
\* Rows 0..MaxRow and columns 0..MaxCol are the grid the rectangles are cut from.
MaxRow == 2
MaxCol == 1
\* Rows 0..RenderMaxRow and columns 0..RenderMaxCol are the grid of the render passes.
RenderMaxRow == 2
RenderMaxCol == 0
\* Rows 0..SmallMaxRow are the grid of the render passes whose other arguments vary widely.
SmallMaxRow == 1
\* The overscan getter is applied to axes of up to MaxCellCount cells, with up
\* to MaxOverscan overscanned cells.
MaxCellCount == 4
MaxOverscan == 2

(***************************************************************************)
(* Strings are sequences of one-character strings, so that template        *)
(* literals, toString and parseInt are computed and not assumed.           *)
(***************************************************************************)
DigitChars == <<"0", "1", "2", "3", "4", "5", "6", "7", "8", "9">>

RECURSIVE NatToStr(_)
NatToStr(n) ==
  IF n < Len(DigitChars) THEN <<DigitChars[n + 1]>>
  ELSE NatToStr(n \div Len(DigitChars)) \o <<DigitChars[(n % Len(DigitChars)) + 1]>>

\* Number.prototype.toString / template-literal conversion of an integer.
toString(n) == IF n < 0 THEN <<"-">> \o NatToStr(-n) ELSE NatToStr(n)

\* `${rowIndex}-${columnIndex}`
getKey(rowIndex, columnIndex) == toString(rowIndex) \o <<"-">> \o toString(columnIndex)

IsDigit(ch) == \E i \in 1..Len(DigitChars) : DigitChars[i] = ch
DigitValue(ch) == (CHOOSE i \in 1..Len(DigitChars) : DigitChars[i] = ch) - 1

RECURSIVE ParseDigits(_, _, _)
ParseDigits(s, i, acc) ==
  IF i > Len(s) \/ ~IsDigit(s[i]) THEN acc
  ELSE ParseDigits(s, i + 1, acc * Len(DigitChars) + DigitValue(s[i]))

\* parseInt(string): the leading run of decimal digits (after an optional
\* minus sign); NaN when there is none.
NaN == "NaN"
parseInt(s) ==
  IF Len(s) >= 1 /\ IsDigit(s[1]) THEN ParseDigits(s, 1, 0)
  ELSE IF Len(s) >= 2 /\ s[1] = "-" /\ IsDigit(s[2]) THEN 0 - ParseDigits(s, 2, 0)
  ELSE NaN

(***************************************************************************)
(* Map: a function from the keys present to their values.                  *)
(***************************************************************************)
EmptyMap == [k \in {} |-> 0]
MapSet(m, k, v) == [x \in (DOMAIN m) \cup {k} |-> IF x = k THEN v ELSE m[x]]
MapValues(m) == {m[k] : k \in DOMAIN m}

(***************************************************************************)
(* foreachKey: the keys of the inclusive rectangle in row-major order, the *)
(* order in which the callback is applied to them.                         *)
(***************************************************************************)
Span_AtLeastOne(start, stop) == IF stop >= start THEN stop - start + 1 ELSE 1

Span(start, stop) == IF stop >= start THEN stop - start + 1 ELSE 0

foreachKey(rowStartIndex, rowStopIndex, columnStartIndex, columnStopIndex) ==
  LET nr == Span(rowStartIndex, rowStopIndex)
      nc == Span(columnStartIndex, columnStopIndex)
  IN  [i \in 1..(nr * nc) |->
         getKey(rowStartIndex + ((i - 1) \div nc), columnStartIndex + ((i - 1) % nc))]

(***************************************************************************)
(* ReusableKeyCache.getReusableKeyMap                                      *)
(***************************************************************************)
CarryForward_Dropped(st, lastMap, key) == st

\* First-pass callback: carry the key of the previous assignment forward.
CarryForward(st, lastMap, key) ==
  IF key \in DOMAIN lastMap
  THEN [newMap |-> MapSet(st.newMap, key, lastMap[key]),
        usedKeys |-> st.usedKeys \cup {lastMap[key]}]
  ELSE st

RECURSIVE FirstPass(_, _, _, _)
FirstPass(keys, i, st, lastMap) ==
  IF i > Len(keys) THEN st
  ELSE FirstPass(keys, i + 1, CarryForward(st, lastMap, keys[i]), lastMap)

\* Changed behaviours of the key search, used to test what the properties rest on.
FindNewKey_IgnoringUsed(usedKeys, nextKey) ==
  [newKey |-> nextKey, nextKey |-> nextKey + 1]

SetMax(S) == CHOOSE x \in S : \A y \in S : y <= x
SetMin(S) == CHOOSE x \in S : \A y \in S : x <= y

FindNewKey_AboveUsed(usedKeys, nextKey) ==
  LET k == SetMax(usedKeys \cup {nextKey - 1}) + 1
  IN  [newKey |-> k, nextKey |-> k + 1]

\* while (newKey == null) { if (!usedKeys[nextKey]) newKey = nextKey; nextKey++ }
RECURSIVE FindNewKey(_, _)
FindNewKey(usedKeys, nextKey) ==
  IF nextKey \notin usedKeys
  THEN [newKey |-> nextKey, nextKey |-> nextKey + 1]
  ELSE FindNewKey(usedKeys, nextKey + 1)

\* Searching a key also for a coordinate that carried one forward.
AssignKey_Reassigning(st, key) ==
  LET f == FindNewKey(st.usedKeys, st.nextKey)
  IN  [newMap |-> MapSet(st.newMap, key, f.newKey),
       usedKeys |-> st.usedKeys \cup {f.newKey},
       nextKey |-> f.nextKey]

\* Second-pass callback: a coordinate without a key takes the next free one.
AssignKey(st, key) ==
  IF key \in DOMAIN st.newMap
  THEN [st EXCEPT !.usedKeys = @ \cup {st.newMap[key]}]
  ELSE LET f == FindNewKey(st.usedKeys, st.nextKey)
       IN  [newMap |-> MapSet(st.newMap, key, f.newKey),
            usedKeys |-> st.usedKeys \cup {f.newKey},
            nextKey |-> f.nextKey]

RECURSIVE SecondPass(_, _, _)
SecondPass(keys, i, st) ==
  IF i > Len(keys) THEN st
  ELSE SecondPass(keys, i + 1, AssignKey(st, keys[i]))

FirstNextKey_Late == 1 + 1

\* let nextKey = 1
FirstNextKey == 1

\* Keeping the entries of the previous assignment next to the new ones.
getReusableKeyMap_Merging(lastMap, rowStartIndex, rowStopIndex, columnStartIndex, columnStopIndex) ==
  LET keys == foreachKey(rowStartIndex, rowStopIndex, columnStartIndex, columnStopIndex)
      p1 == FirstPass(keys, 1, [newMap |-> EmptyMap, usedKeys |-> {}], lastMap)
      p2 == SecondPass(keys, 1, [newMap |-> p1.newMap, usedKeys |-> p1.usedKeys,
                                 nextKey |-> FirstNextKey])
  IN  p2.newMap @@ lastMap

\* let newMap = new Map() ... this.lastMap = newMap; return newMap
getReusableKeyMap(lastMap, rowStartIndex, rowStopIndex, columnStartIndex, columnStopIndex) ==
  LET keys == foreachKey(rowStartIndex, rowStopIndex, columnStartIndex, columnStopIndex)
      p1 == FirstPass(keys, 1, [newMap |-> EmptyMap, usedKeys |-> {}], lastMap)
      p2 == SecondPass(keys, 1, [newMap |-> p1.newMap, usedKeys |-> p1.usedKeys,
                                 nextKey |-> FirstNextKey])
  IN  p2.newMap

(***************************************************************************)
(* Inputs: the inclusive rectangles of the grid; rowStop = rowStart - 1    *)
(* (columnStop = columnStart - 1) is the empty range.                      *)
(***************************************************************************)
RectsOf(maxRow, maxCol) ==
  {[rowStartIndex |-> rs, rowStopIndex |-> re, columnStartIndex |-> cs, columnStopIndex |-> ce] :
     rs \in 0..maxRow, re \in -1..maxRow, cs \in 0..maxCol, ce \in -1..maxCol}

Rects == RectsOf(MaxRow, MaxCol)

\* The rectangles of the render passes on a grid: the non-empty ones, one with
\* no rows and one with no columns.
PassRects(maxRow, maxCol) ==
  {r \in RectsOf(maxRow, maxCol) :
     \/ r.rowStopIndex >= r.rowStartIndex /\ r.columnStopIndex >= r.columnStartIndex
     \/ r.rowStartIndex = 0 /\ r.rowStopIndex = -1 /\ r.columnStartIndex = 0
        /\ r.columnStopIndex = maxCol
     \/ r.rowStartIndex = 0 /\ r.rowStopIndex = maxRow /\ r.columnStartIndex = 0
        /\ r.columnStopIndex = -1}

RenderRects == PassRects(RenderMaxRow, RenderMaxCol)
SmallRects == PassRects(SmallMaxRow, RenderMaxCol)

WellFormed(r) ==
  /\ r.rowStopIndex >= r.rowStartIndex - 1
  /\ r.columnStopIndex >= r.columnStartIndex - 1

Range(seq) == {seq[i] : i \in 1..Len(seq)}

RectKeys(r) == foreachKey(r.rowStartIndex, r.rowStopIndex, r.columnStartIndex, r.columnStopIndex)

RectKeySet(r) == Range(RectKeys(r))

NoRect == [rowStartIndex |-> 0, rowStopIndex |-> -1, columnStartIndex |-> 0, columnStopIndex |-> -1]

(***************************************************************************)
(* Values handled by the Range Renderer.                                   *)
(***************************************************************************)
\* An optional value: <<>> for undefined, <<x>> for x.
Undefined == <<>>
Some(x) == <<x>>

\* CSS lengths: a number, or 'auto'.
Px(n) == [unit |-> "px", n |-> n]
Auto == [unit |-> "auto", n |-> 0]

\* The two copies of the renderer kept in the repository.
GridCopy == "source/Grid/defaultCellRangeRenderer.js"
OtherCopy == "unnamed/part_001"
Copies == {GridCopy, OtherCopy}

\* What a cell-construction callback may return.
Null == [kind |-> "null"]
False == [kind |-> "false"]
Truthy(v) == v.kind = "element"

\* The callback of the application: `behaviour` is what it does for this cell.
\* An element carries the key it was given; "styled" puts the given style on
\* it, "unstyled" leaves props.style undefined, "measured" wraps a styled child
\* in a CellMeasurer and "measuredUnstyled" an unstyled one.
cellRenderer(behaviour, params) ==
  CASE behaviour = "null" -> Null
    [] behaviour = "false" -> False
    [] OTHER ->
         [kind |-> "element",
          key |-> params.key,
          rowIndex |-> params.rowIndex,
          columnIndex |-> params.columnIndex,
          measurer |-> behaviour \in {"measured", "measuredUnstyled"},
          style |-> IF behaviour = "styled" THEN Some(params.style) ELSE Undefined,
          childStyle |-> IF behaviour = "measured" THEN Some(params.style) ELSE Undefined]

\* The size-and-position manager of an axis whose cells all have size `size`.
getSizeAndPositionOfCell(size, index) == [offset |-> index * size, size |-> size]

(***************************************************************************)
(* defaultCellRangeRenderer                                                *)
(***************************************************************************)
\* const areOffsetsAdjusted = column...areOffsetsAdjusted() || row...areOffsetsAdjusted()
areOffsetsAdjusted(p) == p.columnsAdjusted \/ p.rowsAdjusted

canCacheStyle_IgnoringScroll(p) == ~areOffsetsAdjusted(p)

\* const canCacheStyle = !isScrolling && !areOffsetsAdjusted
canCacheStyle(p) == ~p.isScrolling /\ ~areOffsetsAdjusted(p)

UseCellCache_IgnoringAdjustments(p) == p.isScrollingOptOut \/ p.isScrolling

\* (isScrollingOptOut || isScrolling) && !horizontalOffsetAdjustment && !verticalOffsetAdjustment
UseCellCache(p) ==
  /\ p.isScrollingOptOut \/ p.isScrolling
  /\ p.horizontalOffsetAdjustment = 0
  /\ p.verticalOffsetAdjustment = 0

PlaceholderStyle_FixedSize ==
  [height |-> Px(0), left |-> Px(0), position |-> "absolute", top |-> Px(0), width |-> Px(0)]

\* Style for a cell that is not yet measured.
PlaceholderStyle ==
  [height |-> Auto, left |-> Px(0), position |-> "absolute", top |-> Px(0), width |-> Auto]

ComputedStyle(p, rowDatum, columnDatum) ==
  [height |-> Px(rowDatum.size),
   left |-> Px(columnDatum.offset + p.horizontalOffsetAdjustment),
   position |-> "absolute",
   top |-> Px(rowDatum.offset + p.verticalOffsetAdjustment),
   width |-> Px(columnDatum.size)]

CacheMiss_AbsentOnly(cellCache, key) == key \notin DOMAIN cellCache

\* if (!cellCache[key])
CacheMiss(cellCache, key) == key \notin DOMAIN cellCache \/ ~Truthy(cellCache[key])

PatchKey_Never(renderedCell, reuseKey) == renderedCell

PatchKey_KeyOnly(renderedCell, reuseKey) ==
  IF renderedCell.kind = "element" /\ renderedCell.key # reuseKey
  THEN [renderedCell EXCEPT !.key = reuseKey, !.style = Undefined, !.childStyle = Undefined]
  ELSE renderedCell

\* if (renderedCell && renderedCell.key !== reuseKey)
\*   renderedCell = Object.assign({}, renderedCell, {key: reuseKey})
PatchKey(renderedCell, reuseKey) ==
  IF Truthy(renderedCell) /\ renderedCell.key # reuseKey
  THEN [renderedCell EXCEPT !.key = reuseKey]
  ELSE renderedCell

RenderNothing_Always(renderedCell) == TRUE

\* if (renderedCell == null || renderedCell === false) continue
RenderNothing(renderedCell) == renderedCell.kind \in {"null", "false"}

\* warnAboutMissingStyle(parent, renderedCell): whether the cell lacks a style,
\* looking at the child of a CellMeasurer.
MissingStyle(renderedCell) ==
  IF renderedCell.measurer THEN renderedCell.childStyle = Undefined
  ELSE renderedCell.style = Undefined

warnAboutMissingStyle_Repeating(warned, production, renderedCell) ==
  /\ ~production
  /\ Truthy(renderedCell)
  /\ MissingStyle(renderedCell)

\* Whether warnAboutMissingStyle(parent, renderedCell) emits the diagnostic and
\* sets parent.__warnedAboutMissingStyle, which is `warned` before the call.
warnAboutMissingStyle(warned, production, renderedCell) ==
  /\ ~production
  /\ Truthy(renderedCell)
  /\ MissingStyle(renderedCell)
  /\ ~warned

\* The body of the two loops for one cell; acc holds the caches, the warned flag
\* and what the pass has produced so far.
RenderCell(acc, p, rowIndex, columnIndex) ==
  LET rowDatum == getSizeAndPositionOfCell(p.rowSize, rowIndex)
      columnDatum == getSizeAndPositionOfCell(p.columnSize, columnIndex)
      isVisible == /\ columnIndex >= p.visible.columnStartIndex
                   /\ columnIndex <= p.visible.columnStopIndex
                   /\ rowIndex >= p.visible.rowStartIndex
                   /\ rowIndex <= p.visible.rowStopIndex
      key == getKey(rowIndex, columnIndex)
      reuseKey == toString(p.reusableKeyMap[key])
      readStyle == canCacheStyle(p) /\ key \in DOMAIN acc.styleCache
      unmeasured == p.deferred /\ <<rowIndex, columnIndex>> \notin p.measured
      style == IF readStyle THEN acc.styleCache[key]
               ELSE IF unmeasured THEN PlaceholderStyle
               ELSE ComputedStyle(p, rowDatum, columnDatum)
      styleCache1 == IF ~readStyle /\ ~unmeasured THEN MapSet(acc.styleCache, key, style)
                     ELSE acc.styleCache
      cellRendererParams == [columnIndex |-> columnIndex, isScrolling |-> p.isScrolling,
                             isVisible |-> isVisible, key |-> reuseKey,
                             rowIndex |-> rowIndex, style |-> style]
      cached == UseCellCache(p)
      construct == ~cached \/ CacheMiss(acc.cellCache, key)
      fresh == cellRenderer(p.behaviour[key], cellRendererParams)
      cellCache1 == IF cached /\ construct THEN MapSet(acc.cellCache, key, fresh)
                    ELSE acc.cellCache
      renderedCell == IF cached THEN PatchKey(cellCache1[key], reuseKey) ELSE fresh
      warn == /\ ~RenderNothing(renderedCell)
              /\ warnAboutMissingStyle(acc.warned, p.production, renderedCell)
  IN  [styleCache |-> styleCache1,
       cellCache |-> cellCache1,
       warned |-> acc.warned \/ warn,
       warnings |-> acc.warnings + (IF warn THEN 1 ELSE 0),
       styleReads |-> IF readStyle THEN acc.styleReads \cup {key} ELSE acc.styleReads,
       calls |-> IF construct THEN Append(acc.calls, cellRendererParams) ELSE acc.calls,
       results |-> IF construct THEN Append(acc.results, fresh) ELSE acc.results,
       renderedCells |-> IF RenderNothing(renderedCell) THEN acc.renderedCells
                         ELSE Append(acc.renderedCells, renderedCell)]

\* for (rowIndex ...) for (columnIndex ...): the i-th cell in row-major order.
RECURSIVE RenderLoop(_, _, _, _)
RenderLoop(acc, p, r, i) ==
  LET nc == Span(r.columnStartIndex, r.columnStopIndex)
      n == Span(r.rowStartIndex, r.rowStopIndex) * nc
  IN  IF i > n THEN acc
      ELSE RenderLoop(RenderCell(acc, p, r.rowStartIndex + ((i - 1) \div nc),
                                 r.columnStartIndex + ((i - 1) % nc)),
                      p, r, i + 1)

\* The comparator of the final sort: parseInt(b.key) - parseInt(a.key) in the
\* Grid copy, parseInt(a.key) - parseInt(b.key) in the other.
Compare(c, a, b) ==
  IF c = GridCopy THEN parseInt(b.key) - parseInt(a.key)
  ELSE parseInt(a.key) - parseInt(b.key)

\* Array.prototype.sort with that comparator (a stable insertion sort).
RECURSIVE Insert(_, _, _)
Insert(c, sorted, x) ==
  IF sorted = <<>> THEN <<x>>
  ELSE IF Compare(c, sorted[Len(sorted)], x) <= 0 THEN Append(sorted, x)
  ELSE Append(Insert(c, SubSeq(sorted, 1, Len(sorted) - 1), x), sorted[Len(sorted)])

RECURSIVE SortCells(_, _, _)
SortCells(c, cells, i) ==
  IF i = 0 THEN <<>> ELSE Insert(c, SortCells(c, cells, i - 1), cells[i])

(***************************************************************************)
(* defaultOverscanIndicesGetter                                            *)
(***************************************************************************)
SCROLL_DIRECTION_BACKWARD == -1
SCROLL_DIRECTION_FORWARD == 1

Max(a, b) == IF a >= b THEN a ELSE b
Min(a, b) == IF a <= b THEN a ELSE b

\* Overscanning in the direction of the scroll only.
defaultOverscanIndicesGetter_Directional(q) ==
  IF q.scrollDirection = SCROLL_DIRECTION_FORWARD
  THEN [overscanStartIndex |-> Max(0, q.startIndex),
        overscanStopIndex |-> Min(q.cellCount - 1, q.stopIndex + q.overscanCellsCount)]
  ELSE [overscanStartIndex |-> Max(0, q.startIndex - q.overscanCellsCount),
        overscanStopIndex |-> Min(q.cellCount - 1, q.stopIndex)]

defaultOverscanIndicesGetter(q) ==
  [overscanStartIndex |-> Max(0, q.startIndex - q.overscanCellsCount),
   overscanStopIndex |-> Min(q.cellCount - 1, q.stopIndex + q.overscanCellsCount)]

(***************************************************************************)
(* State.                                                                  *)
(***************************************************************************)
VARIABLES
  copy,            \* which copy of the renderer runs
  hasRecycler,     \* whether the owner object holds a ReusableKeyCache yet
  lastMap,         \* this.lastMap of the recycler
  styleCache,      \* the style cache of the viewport
  cellCache,       \* the content-instance cache of the viewport
  warned,          \* parent.__warnedAboutMissingStyle
  reusableKeyMap,  \* the map returned by the latest getReusableKeyMap call
  priorMap,        \* this.lastMap as the latest call found it
  rect,            \* the rectangle of the latest call
  prevRect,        \* the rectangle of the call before it
  ncalls,          \* calls made on this recycler so far: 0, 1, 2, or 3 for "three or more"
  sizeRange,       \* the smallest and the largest number of coordinates requested of it so far
  opts,            \* the other arguments of the latest render pass
  prevCached,      \* how the pass before the latest used the present cell cache: "none", "scrolling", "optOut"
  prevSkipped,     \* the coordinates the pass before the latest rendered nothing for
  sinceReset,      \* render passes since the owner last replaced the cell cache: 0, 1, 2 for more
  renderedCells,   \* the collection returned by the latest render pass
  calls,           \* the arguments of the callback's invocations in the latest pass, in order
  results,         \* what these invocations returned, in the same order
  styleReads,      \* the coordinates whose style the latest pass took from the style cache
  warnings,        \* the diagnostics the latest pass emitted
  emitted,         \* the diagnostics emitted for the viewport so far: 0, 1, or 2 for "two or more"
  overscanParams,  \* the arguments of the latest defaultOverscanIndicesGetter call, if any
  overscanIndices  \* what that call returned

vars == <<copy, hasRecycler, lastMap, styleCache, cellCache, warned, reusableKeyMap, priorMap,
          rect, prevRect, ncalls, sizeRange, opts, prevCached, prevSkipped, sinceReset, renderedCells,
          calls, results, styleReads, warnings, emitted, overscanParams, overscanIndices>>

overscanVars == <<overscanParams, overscanIndices>>

rendererVars == <<copy, hasRecycler, styleCache, cellCache, warned, opts, prevCached,
                  prevSkipped, sinceReset, renderedCells, calls, results, styleReads, warnings,
                  emitted>>

NoOpts ==
  [isScrolling |-> FALSE, isScrollingOptOut |-> FALSE,
   horizontalOffsetAdjustment |-> 0, verticalOffsetAdjustment |-> 0,
   columnsAdjusted |-> FALSE, rowsAdjusted |-> FALSE,
   deferred |-> FALSE, measured |-> {}, rowSize |-> 0, columnSize |-> 0,
   visible |-> NoRect, production |-> FALSE]

\* A viewport before its first render pass: empty caches, no recycler yet.
InitRenderer ==
  /\ hasRecycler = FALSE
  /\ lastMap = EmptyMap
  /\ styleCache = EmptyMap
  /\ cellCache = EmptyMap
  /\ warned = FALSE
  /\ reusableKeyMap = EmptyMap
  /\ priorMap = EmptyMap
  /\ rect = NoRect
  /\ prevRect = NoRect
  /\ ncalls = 0
  /\ sizeRange = Undefined
  /\ opts = NoOpts
  /\ prevCached = "none"
  /\ prevSkipped = {}
  /\ sinceReset = 0
  /\ renderedCells = <<>>
  /\ calls = <<>>
  /\ results = <<>>
  /\ styleReads = {}
  /\ warnings = 0
  /\ emitted = 0
  /\ overscanParams = Undefined
  /\ overscanIndices = Undefined

\* constructor(): this.lastMap = new Map(), on a recycler used on its own.
InitKeys ==
  /\ InitRenderer
  /\ copy = GridCopy

\* The history of the calls on the recycler, kept when `on` (by the
\* specifications whose properties read it).
KeyHistory(on) ==
  IF on
  THEN /\ priorMap' = lastMap
       /\ ncalls' = IF ncalls < 3 THEN ncalls + 1 ELSE ncalls
  ELSE UNCHANGED <<priorMap, ncalls>>

\* The sizes of the rectangles requested of the recycler, with that of r.
SizeHistory(r) ==
  LET n == Len(RectKeys(r))
  IN  sizeRange' = IF sizeRange = Undefined THEN Some([min |-> n, max |-> n])
                   ELSE Some([min |-> Min(sizeRange[1].min, n),
                              max |-> Max(sizeRange[1].max, n)])

\* One call of getReusableKeyMap on the recycler.
KeyMapCall(r) ==
  LET newMap == getReusableKeyMap(lastMap, r.rowStartIndex, r.rowStopIndex,
                                  r.columnStartIndex, r.columnStopIndex)
  IN  /\ lastMap' = newMap
      /\ reusableKeyMap' = newMap
      /\ rect' = r
      /\ prevRect' = rect
      /\ KeyHistory(TRUE)
      /\ SizeHistory(r)

NextKeys ==
  \E r \in Rects : WellFormed(r) /\ KeyMapCall(r) /\ UNCHANGED <<rendererVars, overscanVars>>

SpecKeys == InitKeys /\ [][NextKeys]_vars

(***************************************************************************)
(* One render pass: defaultCellRangeRenderer called by the viewport with   *)
(* rectangle r and the other arguments o.                                  *)
(***************************************************************************)
\* getReusableKeyCache(owner): the lastMap of the owner's recycler; a recycler
\* created now, because the owner has none, starts with an empty one.
getReusableKeyCache(has, map) == IF has THEN map ELSE EmptyMap

\* Which caching mode a pass with arguments o ran in.
CacheMode(o) ==
  IF ~UseCellCache(o) THEN "none" ELSE IF o.isScrolling THEN "scrolling" ELSE "optOut"

SkippedKeys(r, cells) ==
  {k \in Range(RectKeys(r)) :
     \A i \in 1..Len(cells) : getKey(cells[i].rowIndex, cells[i].columnIndex) # k}

\* The history of the render passes, kept when `on`.
PassHistory(on) ==
  IF on
  THEN /\ prevRect' = rect
       /\ prevCached' = IF sinceReset >= 1 THEN CacheMode(opts) ELSE "none"
       /\ prevSkipped' = SkippedKeys(rect, renderedCells)
       /\ sinceReset' = IF sinceReset < 2 THEN sinceReset + 1 ELSE sinceReset
  ELSE UNCHANGED <<prevRect, prevCached, prevSkipped, sinceReset>>

Render(r, history, o, behaviour) ==
  \E newMap \in {getReusableKeyMap(getReusableKeyCache(hasRecycler, lastMap),
                                   r.rowStartIndex, r.rowStopIndex,
                                   r.columnStartIndex, r.columnStopIndex)} :
    \E acc \in {RenderLoop([styleCache |-> styleCache, cellCache |-> cellCache,
                            warned |-> warned, warnings |-> 0, styleReads |-> {},
                            calls |-> <<>>, results |-> <<>>, renderedCells |-> <<>>],
                           o @@ [reusableKeyMap |-> newMap, behaviour |-> behaviour], r, 1)} :
      /\ hasRecycler' = TRUE
      /\ lastMap' = newMap
      /\ reusableKeyMap' = newMap
      /\ rect' = r
      /\ opts' = o
      /\ styleCache' = acc.styleCache
      /\ cellCache' = acc.cellCache
      /\ warned' = acc.warned
      /\ warnings' = acc.warnings
      /\ emitted' = Min(2, emitted + acc.warnings)
      /\ styleReads' = acc.styleReads
      /\ calls' = acc.calls
      /\ results' = acc.results
      /\ renderedCells' = SortCells(copy, acc.renderedCells, Len(acc.renderedCells))
      /\ KeyHistory(history.keys)
      /\ PassHistory(history.passes)
      /\ UNCHANGED <<copy, sizeRange, overscanVars>>

\* The owner replaces its content-instance cache by an empty object when a
\* scroll session ends. In the Grid copy the recycler hangs on that object and
\* goes with it; in the other copy it hangs on the viewport and stays.
ResetCellCache ==
  /\ cellCache' = EmptyMap
  /\ sinceReset' = 0
  /\ hasRecycler' = IF copy = GridCopy THEN FALSE ELSE hasRecycler
  /\ lastMap' = IF copy = GridCopy THEN EmptyMap ELSE lastMap
  /\ UNCHANGED <<copy, styleCache, warned, reusableKeyMap, priorMap, rect, prevRect, ncalls,
                 sizeRange,
                 opts, prevCached, prevSkipped, renderedCells, calls, results, styleReads,
                 warnings, emitted, overscanVars>>

\* The visible rectangle inside the rendered one, with `overscan` rows above it.
VisibleRect(r, overscan) == [r EXCEPT !.rowStartIndex = @ + overscan]

RectCoords(r) ==
  {<<row, col>> : row \in r.rowStartIndex..r.rowStopIndex,
                  col \in r.columnStartIndex..r.columnStopIndex}

\* A render pass with arguments drawn from the sets of d; b is what the
\* application's callback does for each cell of the rectangle.
RenderPass(d) ==
  \E r \in d.rects :
    /\ WellFormed(r)
    /\ \E sc \in d.isScrolling, oo \in d.isScrollingOptOut,
          adj \in d.adjustments,
          ca \in d.adjusted, ra \in d.adjusted, df \in d.deferred,
          ov \in d.overscan, sz \in d.sizes :
         \E m \in (IF df THEN SUBSET RectCoords(r) ELSE {{}}) :
           \E b \in [RectKeySet(r) -> d.behaviours] :
             Render(r, d.history, [isScrolling |-> sc, isScrollingOptOut |-> oo,
                        horizontalOffsetAdjustment |-> adj[1], verticalOffsetAdjustment |-> adj[2],
                        columnsAdjusted |-> ca, rowsAdjusted |-> ra,
                        deferred |-> df, measured |-> m,
                        rowSize |-> sz[1], columnSize |-> sz[2],
                        visible |-> VisibleRect(r, ov), production |-> FALSE], b)

InitScroll == InitRenderer /\ copy \in Copies

\* Scrolling and idle passes over moving rectangles, every cell rendered.
ScrollInputs ==
  [rects |-> RenderRects, isScrolling |-> BOOLEAN, isScrollingOptOut |-> {FALSE},
   adjustments |-> {<<0, 0>>},
   adjusted |-> {FALSE}, deferred |-> {FALSE}, overscan |-> {0},
   sizes |-> {<<20, 50>>}, behaviours |-> {"styled"},
   history |-> [keys |-> FALSE, passes |-> FALSE]]

NextScroll == RenderPass(ScrollInputs) \/ ResetCellCache

SpecScroll == InitScroll /\ [][NextScroll]_vars

\* Scrolling and idle passes over one rectangle or another, with callbacks
\* that may render nothing, and the history of the passes.
CacheInputs ==
  [rects |-> SmallRects, isScrolling |-> BOOLEAN, isScrollingOptOut |-> {FALSE},
   adjustments |-> {<<0, 0>>},
   adjusted |-> {FALSE}, deferred |-> {FALSE}, overscan |-> {0},
   sizes |-> {<<20, 50>>}, behaviours |-> {"styled", "null", "false"},
   history |-> [keys |-> FALSE, passes |-> TRUE]]

NextCache == RenderPass(CacheInputs) \/ ResetCellCache

SpecCache == InitScroll /\ [][NextCache]_vars

\* Passes with and without the cell cache: every combination of the scroll
\* flags, with no offset adjustment, a horizontal one or a vertical one.
BypassInputs ==
  [rects |-> SmallRects, isScrolling |-> BOOLEAN, isScrollingOptOut |-> BOOLEAN,
   adjustments |-> {<<0, 0>>, <<5, 0>>, <<0, 5>>},
   adjusted |-> {FALSE}, deferred |-> {FALSE}, overscan |-> {0},
   sizes |-> {<<20, 50>>}, behaviours |-> {"styled"},
   history |-> [keys |-> FALSE, passes |-> FALSE]]

NextBypass == RenderPass(BypassInputs)

SpecBypass == InitScroll /\ [][NextBypass]_vars

\* Idle and scrolling passes with and without compressed offsets.
StyleInputs ==
  [rects |-> SmallRects, isScrolling |-> BOOLEAN, isScrollingOptOut |-> {FALSE},
   adjustments |-> {<<0, 0>>, <<0, 5>>},
   adjusted |-> BOOLEAN, deferred |-> {FALSE}, overscan |-> {0},
   sizes |-> {<<20, 50>>}, behaviours |-> {"styled"},
   history |-> [keys |-> FALSE, passes |-> FALSE]]

NextStyle == RenderPass(StyleInputs)

SpecStyle == InitScroll /\ [][NextStyle]_vars

\* Idle and scrolling passes with and without a deferred-measurement cache,
\* which reports any part of the rectangle as measured.
DeferredInputs ==
  [rects |-> SmallRects, isScrolling |-> BOOLEAN, isScrollingOptOut |-> {FALSE},
   adjustments |-> {<<0, 0>>},
   adjusted |-> BOOLEAN, deferred |-> BOOLEAN, overscan |-> {0},
   sizes |-> {<<20, 50>>}, behaviours |-> {"styled"},
   history |-> [keys |-> FALSE, passes |-> FALSE]]

NextDeferred == RenderPass(DeferredInputs)

SpecDeferred == InitScroll /\ [][NextDeferred]_vars

\* Scrolling and idle passes, with the owner replacing its cell cache, over
\* cells with and without a style, bare and wrapped in a CellMeasurer.
WarnInputs ==
  [rects |-> SmallRects, isScrolling |-> BOOLEAN, isScrollingOptOut |-> {FALSE},
   adjustments |-> {<<0, 0>>},
   adjusted |-> {FALSE}, deferred |-> {FALSE}, overscan |-> {0},
   sizes |-> {<<20, 50>>},
   behaviours |-> {"styled", "unstyled", "measured", "measuredUnstyled"},
   history |-> [keys |-> FALSE, passes |-> FALSE]]

NextWarn == RenderPass(WarnInputs) \/ ResetCellCache

SpecWarn == InitScroll /\ [][NextWarn]_vars

\* Passes over empty and non-empty rectangles, scrolling and idle, over cells
\* with and without a style, with the owner replacing its cell cache, and the
\* history of the passes.
EmptyInputs ==
  [rects |-> SmallRects, isScrolling |-> BOOLEAN, isScrollingOptOut |-> {FALSE},
   adjustments |-> {<<0, 0>>},
   adjusted |-> {FALSE}, deferred |-> {FALSE}, overscan |-> {0},
   sizes |-> {<<20, 50>>}, behaviours |-> {"styled", "unstyled"},
   history |-> [keys |-> FALSE, passes |-> TRUE]]

NextEmpty == RenderPass(EmptyInputs) \/ ResetCellCache

SpecEmpty == InitScroll /\ [][NextEmpty]_vars

(***************************************************************************)
(* Calls of defaultOverscanIndicesGetter, with indices inside and outside  *)
(* the axis.                                                               *)
(***************************************************************************)
OverscanInputs ==
  [cellCount : 0..MaxCellCount,
   overscanCellsCount : 0..MaxOverscan,
   scrollDirection : {SCROLL_DIRECTION_BACKWARD, SCROLL_DIRECTION_FORWARD},
   startIndex : -1..MaxCellCount,
   stopIndex : -1..MaxCellCount]

GetOverscanIndices ==
  \E q \in OverscanInputs :
    /\ overscanParams' = Some(q)
    /\ overscanIndices' = Some(defaultOverscanIndicesGetter(q))
    /\ UNCHANGED <<rendererVars, lastMap, reusableKeyMap, priorMap, rect, prevRect, ncalls,
                   sizeRange>>

NextOverscan == GetOverscanIndices

SpecOverscan == InitKeys /\ [][NextOverscan]_vars

(***************************************************************************)
(* Properties of the Key Recycler.                                         *)
(***************************************************************************)
Injective(m) == \A a, b \in DOMAIN m : m[a] = m[b] => a = b

\* The coordinates of the latest rectangle that carried a key forward, and
\* the keys they carried.
CarriedCoords == RectKeySet(rect) \cap DOMAIN priorMap
CarriedKeys == {priorMap[k] : k \in CarriedCoords}

\* C1: after any sequence of getReusableKeyMap calls, the returned assignment
\* maps every coordinate of the requested rectangle (and nothing else) to one
\* slot key, every slot key is an integer >= 1, and no two coordinates share one.
C1_UniqueKeys ==
  ncalls >= 1 =>
    /\ DOMAIN reusableKeyMap = RectKeySet(rect)
    /\ \A k \in DOMAIN reusableKeyMap : reusableKeyMap[k] \in Nat /\ reusableKeyMap[k] >= 1
    /\ Injective(reusableKeyMap)

\* A call that both carried keys forward and handed out fresh ones.
C1_Witness ==
  /\ ncalls >= 2
  /\ CarriedCoords # {}
  /\ Cardinality(RectKeySet(rect) \ DOMAIN priorMap) >= 2
  /\ Cardinality(MapValues(reusableKeyMap)) >= 4

\* C2: for two consecutive calls R1 then R2, every coordinate in both
\* rectangles has in R2 the slot key it had in R1.
C2_StableKeys ==
  ncalls >= 2 =>
    \A k \in RectKeySet(prevRect) \cap RectKeySet(rect) :
      /\ k \in DOMAIN priorMap
      /\ k \in DOMAIN reusableKeyMap
      /\ reusableKeyMap[k] = priorMap[k]

\* Two different overlapping rectangles, where a shared coordinate keeps a key
\* that a fresh numbering of the second rectangle would not give it.
C2_Witness ==
  /\ ncalls >= 2
  /\ prevRect # rect
  /\ \E i \in 1..Len(RectKeys(rect)) :
       /\ RectKeys(rect)[i] \in RectKeySet(prevRect)
       /\ reusableKeyMap[RectKeys(rect)[i]] # i

\* C3 as stated: the maximum slot key of the returned assignment is at most
\* the number N of coordinates of the current rectangle.
C3_MaxKeyAtMostN ==
  ncalls >= 1 =>
    \A k \in DOMAIN reusableKeyMap : reusableKeyMap[k] <= Len(RectKeys(rect))

\* C3 amended: every slot key of the returned assignment is at most N unless it
\* was carried forward from the previous assignment, so the maximum is at most
\* the larger of N and the largest carried-forward key.
C3_FreshKeysAtMostN ==
  ncalls >= 1 =>
    \A k \in DOMAIN reusableKeyMap :
      \/ reusableKeyMap[k] <= Len(RectKeys(rect))
      \/ (k \in DOMAIN priorMap /\ priorMap[k] = reusableKeyMap[k])

\* A rectangle smaller than its predecessor: a key above N is carried forward
\* while a fresh key is handed out in the same call.
C3_Witness ==
  /\ ncalls >= 2
  /\ \E k \in CarriedCoords : reusableKeyMap[k] > Len(RectKeys(rect))
  /\ RectKeySet(rect) \ DOMAIN priorMap # {}

\* The coordinates of the latest rectangle that carried no key, in row-major order.
FreshIndices == {i \in 1..Len(RectKeys(rect)) : RectKeys(rect)[i] \notin DOMAIN priorMap}

\* C4: coordinates without a key from the previous assignment are served in
\* row-major order, each receiving the smallest integer >= 1 used neither by a
\* carried-forward key nor by a key handed out earlier in the same call.
C4_SmallestFreeKey ==
  ncalls >= 1 =>
    \A i \in FreshIndices :
      LET keys == RectKeys(rect)
          earlier == {reusableKeyMap[keys[j]] : j \in {x \in FreshIndices : x < i}}
          taken == CarriedKeys \cup earlier
          free == {n \in 1..(Cardinality(taken) + 1) : n \notin taken}
      IN  /\ keys[i] \in DOMAIN reusableKeyMap
          /\ reusableKeyMap[keys[i]] = SetMin(free)

\* A fresh coordinate that had to skip a carried-forward key, after another
\* fresh coordinate was served in the same call.
C4_Witness ==
  /\ ncalls >= 2
  /\ \E i, j \in FreshIndices :
       /\ j < i
       /\ \E c \in CarriedKeys :
            reusableKeyMap[RectKeys(rect)[j]] < c /\ c < reusableKeyMap[RectKeys(rect)[i]]

\* C5: on a fresh recycler the first call numbers the N coordinates 1..N in
\* row-major order, and when the next call drops exactly one coordinate and
\* adds exactly one, the added coordinate receives the key of the dropped one.
C5_Rotation ==
  /\ ncalls = 1 =>
       /\ DOMAIN reusableKeyMap = RectKeySet(rect)
       /\ \A i \in 1..Len(RectKeys(rect)) : reusableKeyMap[RectKeys(rect)[i]] = i
  /\ (/\ ncalls = 2
      /\ Cardinality(RectKeySet(prevRect) \ RectKeySet(rect)) = 1
      /\ Cardinality(RectKeySet(rect) \ RectKeySet(prevRect)) = 1)
     => \A old \in RectKeySet(prevRect) \ RectKeySet(rect) :
          \A new \in RectKeySet(rect) \ RectKeySet(prevRect) :
            /\ old \in DOMAIN priorMap
            /\ new \in DOMAIN reusableKeyMap
            /\ reusableKeyMap[new] = priorMap[old]

\* A window of at least two coordinates slid by one: the coordinate that
\* entered is the last of the rectangle and took key 1, vacated by the
\* coordinate that left, while the coordinates that stayed kept theirs.
C5_Witness ==
  /\ ncalls = 2
  /\ Len(RectKeys(rect)) >= 2
  /\ Cardinality(RectKeySet(prevRect) \ RectKeySet(rect)) = 1
  /\ Cardinality(RectKeySet(rect) \ RectKeySet(prevRect)) = 1
  /\ RectKeys(rect)[Len(RectKeys(rect))] \notin RectKeySet(prevRect)
  /\ reusableKeyMap[RectKeys(rect)[Len(RectKeys(rect))]] = 1
  /\ reusableKeyMap[RectKeys(rect)[1]] = 2

\* C16: after every getReusableKeyMap call the coordinates of the stored
\* assignment (lastMap) are exactly the coordinates of that call's rectangle:
\* the stored assignment holds no coordinate outside the last rectangle and is
\* no larger than it.
C16_LastMapReplaced ==
  /\ DOMAIN lastMap = RectKeySet(rect)
  /\ \A k \in DOMAIN lastMap : k \in Range(RectKeys(rect))
  /\ Cardinality(DOMAIN lastMap) <= Len(RectKeys(rect))
  /\ ncalls >= 1 => lastMap = reusableKeyMap

\* A call whose rectangle kept one coordinate of the previous assignment,
\* dropped another and added a new one.
C16_Witness ==
  /\ ncalls >= 2
  /\ CarriedCoords # {}
  /\ DOMAIN priorMap \ RectKeySet(rect) # {}
  /\ RectKeySet(rect) \ DOMAIN priorMap # {}
  /\ DOMAIN lastMap \cap (DOMAIN priorMap \ RectKeySet(rect)) = {}

\* C17: after any sequence of getReusableKeyMap calls on one recycler every
\* slot key in use is at most the largest number of coordinates requested in
\* any call so far, and when every call so far requested the same number N of
\* coordinates the keys in use are exactly 1..N.
C17_BoundedPool ==
  ncalls >= 1 =>
    /\ \A k \in DOMAIN lastMap : lastMap[k] <= sizeRange[1].max
    /\ sizeRange[1].min = sizeRange[1].max
         => {lastMap[k] : k \in DOMAIN lastMap} = 1..sizeRange[1].max

\* Three or more calls for two coordinates each, the latest on a rectangle
\* that shares one coordinate with the one before.
C17_Witness ==
  /\ ncalls >= 3
  /\ sizeRange[1].min = 2
  /\ sizeRange[1].max = 2
  /\ Cardinality(CarriedCoords) = 1
  /\ {lastMap[k] : k \in DOMAIN lastMap} = {1, 2}

\* C20: a getReusableKeyMap call with the rectangle of the call before it
\* returns the assignment that call returned, and leaves the stored assignment
\* as it found it; so does a third such call, and any later one.
C20_Idempotent ==
  (ncalls >= 2 /\ rect = prevRect) =>
    /\ reusableKeyMap = priorMap
    /\ lastMap = priorMap
    /\ MapValues(reusableKeyMap) = MapValues(priorMap)

\* A third or later call that repeated the rectangle of the call before it,
\* on an assignment that is not the row-major numbering of the rectangle.
C20_Witness ==
  /\ ncalls >= 3
  /\ rect = prevRect
  /\ Len(RectKeys(rect)) >= 2
  /\ \E i \in 1..Len(RectKeys(rect)) : reusableKeyMap[RectKeys(rect)[i]] # i
  /\ reusableKeyMap = priorMap

(***************************************************************************)
(* Properties of the Range Renderer.                                       *)
(***************************************************************************)
CellCoord(c) == getKey(c.rowIndex, c.columnIndex)
CallCoords(cs) == [i \in 1..Len(cs) |-> getKey(cs[i].rowIndex, cs[i].columnIndex)]

\* C6: the collection a render pass returns is ordered by ascending numeric
\* identity key: of two adjacent cells the first has the smaller key.
C6_AscendingOrder ==
  \A i \in 1..(Len(renderedCells) - 1) :
    parseInt(renderedCells[i].key) < parseInt(renderedCells[i + 1].key)

\* C7: after any sequence of render passes the returned collection holds no
\* two cells with the same identity key, and the identity key of every
\* returned cell is the string form of the slot key now assigned to its
\* coordinate.
C7_DistinctCurrentKeys ==
  /\ \A i, j \in 1..Len(renderedCells) :
       renderedCells[i].key = renderedCells[j].key => i = j
  /\ \A i \in 1..Len(renderedCells) :
       /\ CellCoord(renderedCells[i]) \in DOMAIN reusableKeyMap
       /\ renderedCells[i].key = toString(reusableKeyMap[CellCoord(renderedCells[i])])

\* A scrolling pass returned a cell whose cached original was built under
\* another key, a key that a different returned cell now has.
C7_Witness ==
  /\ opts.isScrolling
  /\ \E i, j \in 1..Len(renderedCells) :
       /\ i # j
       /\ CellCoord(renderedCells[i]) \in DOMAIN cellCache
       /\ Truthy(cellCache[CellCoord(renderedCells[i])])
       /\ cellCache[CellCoord(renderedCells[i])].key # renderedCells[i].key
       /\ cellCache[CellCoord(renderedCells[i])].key = renderedCells[j].key

\* C8: in a pass for which a size-and-position manager reports adjusted
\* offsets, no style is taken from the style cache and the style cache is
\* after the pass what it was before.
C8_StyleCacheUntouched ==
  [][(opts'.columnsAdjusted \/ opts'.rowsAdjusted)
       => (styleReads' = {} /\ styleCache' = styleCache)]_vars

\* The two passes C9 is about: the latest pass and the one before it both ran
\* while scrolling with no offset adjustment, over the same rectangle, and the
\* cell cache was not replaced in between.
C9_SameCallTwice ==
  /\ prevCached = "scrolling"
  /\ opts.isScrolling
  /\ opts.horizontalOffsetAdjustment = 0
  /\ opts.verticalOffsetAdjustment = 0
  /\ rect = prevRect

\* C9 as stated: the second of the two calls invokes the construction
\* callback for no coordinate, whatever the callback returned in the first.
C9_SecondCallConstructsNothing == C9_SameCallTwice => calls = <<>>

\* C9 amended: the second of the two calls invokes the construction callback
\* for no coordinate for which the first call returned a cell, and once more
\* (exactly once) for every coordinate for which the first call rendered nothing.
C9_SecondCallConstructsSkippedOnly ==
  C9_SameCallTwice =>
    /\ Range(CallCoords(calls)) = prevSkipped
    /\ Len(calls) = Cardinality(prevSkipped)

\* The second call served one coordinate from the cache and constructed the
\* other again, for which the first call had rendered nothing.
C9_Witness ==
  /\ C9_SameCallTwice
  /\ Len(RectKeys(rect)) >= 2
  /\ prevSkipped # {}
  /\ prevSkipped # RectKeySet(rect)
  /\ Len(calls) >= 1

\* The passes for which the caching condition is false.
C10_Bypass(o) ==
  \/ ~o.isScrolling /\ ~o.isScrollingOptOut
  \/ o.horizontalOffsetAdjustment # 0
  \/ o.verticalOffsetAdjustment # 0

\* C10: a pass for which the caching condition is false invokes the
\* construction callback exactly once for every coordinate of its rectangle,
\* returns what these invocations constructed, and leaves the content-instance
\* cache as it was.
C10_BypassConstructsAll ==
  [][C10_Bypass(opts')
       => /\ CallCoords(calls') = RectKeys(rect')
          /\ cellCache' = cellCache
          /\ \A i \in 1..Len(renderedCells') :
               \E j \in 1..Len(calls') :
                 /\ CallCoords(calls')[j] = CellCoord(renderedCells'[i])
                 /\ renderedCells'[i].key = calls'[j].key
                 /\ renderedCells'[i].style = Some(calls'[j].style)]_vars

\* A scrolling pass that bypassed the cache only because of an offset
\* adjustment, although the cache held a cell for each of its two coordinates.
C10_Witness ==
  /\ opts.isScrolling
  /\ C10_Bypass(opts)
  /\ Len(RectKeys(rect)) = 2
  /\ \A k \in RectKeySet(rect) : k \in DOMAIN cellCache /\ Truthy(cellCache[k])
  /\ CallCoords(calls) = RectKeys(rect)

\* The invocations of the callback, in a pass with arguments o, for a
\* coordinate that the deferred-measurement cache reports as unmeasured.
UnmeasuredCalls(o, cs) ==
  {i \in 1..Len(cs) : o.deferred /\ <<cs[i].rowIndex, cs[i].columnIndex>> \notin o.measured}

\* C11 as stated: in every pass, the style handed to the callback for a
\* coordinate reported as unmeasured is {height: 'auto', left: 0, position:
\* 'absolute', top: 0, width: 'auto'}, whatever the style cache holds and
\* whether or not the viewport is scrolling, and no such style is in the style cache.
C11_PlaceholderAlways ==
  /\ \A i \in UnmeasuredCalls(opts, calls) :
       calls[i].style = [height |-> Auto, left |-> Px(0), position |-> "absolute",
                         top |-> Px(0), width |-> Auto]
  /\ \A k \in DOMAIN styleCache : styleCache[k].height # Auto /\ styleCache[k].width # Auto

\* C11 amended: the style handed to the callback for a coordinate reported as
\* unmeasured is that placeholder, except when the viewport is not scrolling, no
\* axis reports adjusted offsets and the style cache already holds a style for
\* the coordinate: then the cached style is handed out. The pass leaves the
\* style cache entry of such a coordinate as it was, and no placeholder is ever
\* in the style cache.
C11_PlaceholderUnlessCached ==
  [][/\ \A i \in UnmeasuredCalls(opts', calls') :
          LET k == CallCoords(calls')[i]
          IN  /\ IF /\ ~opts'.isScrolling
                    /\ ~opts'.columnsAdjusted
                    /\ ~opts'.rowsAdjusted
                    /\ k \in DOMAIN styleCache
                 THEN calls'[i].style = styleCache[k]
                 ELSE calls'[i].style = [height |-> Auto, left |-> Px(0),
                                         position |-> "absolute", top |-> Px(0),
                                         width |-> Auto]
              /\ (k \in DOMAIN styleCache') = (k \in DOMAIN styleCache)
              /\ k \in DOMAIN styleCache => styleCache'[k] = styleCache[k]
     /\ \A k \in DOMAIN styleCache' :
          styleCache'[k].height # Auto /\ styleCache'[k].width # Auto]_vars

\* An idle pass handed the callback a placeholder for one unmeasured
\* coordinate and a style from the style cache for another.
C11_Witness ==
  /\ ~opts.isScrolling
  /\ \E i, j \in UnmeasuredCalls(opts, calls) :
       /\ calls[i].style.height = Auto
       /\ CallCoords(calls)[i] \notin DOMAIN styleCache
       /\ CallCoords(calls)[j] \in styleReads
       /\ calls[j].style.height # Auto

\* What the latest pass obtained for coordinate k of its rectangle: what the
\* callback returned if the pass invoked it for k, else what the
\* content-instance cache held for k.
Obtained(k) ==
  IF \E i \in 1..Len(calls) : CallCoords(calls)[i] = k
  THEN results[CHOOSE i \in 1..Len(calls) : CallCoords(calls)[i] = k]
  ELSE cellCache[k]

\* The coordinates of the latest rectangle for which it obtained null or false.
NothingObtained == {k \in RectKeySet(rect) : Obtained(k).kind \in {"null", "false"}}

\* C12: the returned collection holds exactly one cell for every coordinate of
\* the rectangle whose constructed or cached cell is neither null nor false and
\* no entry for the others, in the cached and in the uncached branch, so its
\* length is N minus the number of coordinates that render nothing.
\* (Stated of the passes after which the owner has not replaced the cache.)
C12_NothingOmitted ==
  sinceReset >= 1 =>
    /\ \A i \in 1..Len(renderedCells) :
         /\ renderedCells[i].kind = "element"
         /\ CellCoord(renderedCells[i]) \in RectKeySet(rect) \ NothingObtained
    /\ \A k \in RectKeySet(rect) \ NothingObtained :
         Cardinality({i \in 1..Len(renderedCells) : CellCoord(renderedCells[i]) = k}) = 1
    /\ Len(renderedCells) = Len(RectKeys(rect)) - Cardinality(NothingObtained)

\* A scrolling pass over two coordinates returned one cell: it took a cached
\* cell for one coordinate and obtained false from the callback for the other.
C12_Witness ==
  /\ sinceReset >= 1
  /\ opts.isScrolling
  /\ Len(RectKeys(rect)) = 2
  /\ Len(renderedCells) = 1
  /\ Len(calls) = 1
  /\ results[1].kind = "false"

\* The position of the cell of coordinate k in a returned collection (0 if absent).
PositionOf(cells, k) ==
  IF \E i \in 1..Len(cells) : CellCoord(cells[i]) = k
  THEN CHOOSE i \in 1..Len(cells) : CellCoord(cells[i]) = k
  ELSE 0

\* C13: of two consecutive render passes of a viewport, any two coordinates
\* rendered in both appear in the same relative order in both returned
\* collections.
C13_StableOrder ==
  [][\A i, j \in 1..Len(renderedCells) :
       LET a == PositionOf(renderedCells', CellCoord(renderedCells[i]))
           b == PositionOf(renderedCells', CellCoord(renderedCells[j]))
       IN  (i < j /\ a # 0 /\ b # 0) => a < b]_vars

\* C15: in a pass that serves cells from the content-instance cache, for a
\* coordinate whose cached cell has an identity key other than the
\* coordinate's current slot key, the pass returns a value distinct from the
\* cached cell and equal to it in every field but the identity key, which is
\* the current slot key; the cache entry is after the pass what it was before.
C15_PatchedCopy ==
  [][(/\ sinceReset' >= 1
      /\ opts'.isScrollingOptOut \/ opts'.isScrolling
      /\ opts'.horizontalOffsetAdjustment = 0
      /\ opts'.verticalOffsetAdjustment = 0)
     => \A k \in RectKeySet(rect') \cap DOMAIN cellCache :
          (/\ cellCache[k].kind = "element"
           /\ cellCache[k].key # toString(reusableKeyMap'[k]))
          => /\ k \in DOMAIN cellCache'
             /\ cellCache'[k] = cellCache[k]
             /\ PositionOf(renderedCells', k) # 0
             /\ LET c == renderedCells'[PositionOf(renderedCells', k)]
                IN  /\ c # cellCache[k]
                    /\ c.key = toString(reusableKeyMap'[k])
                    /\ c.kind = cellCache[k].kind
                    /\ c.rowIndex = cellCache[k].rowIndex
                    /\ c.columnIndex = cellCache[k].columnIndex
                    /\ c.measurer = cellCache[k].measurer
                    /\ c.style = cellCache[k].style
                    /\ c.childStyle = cellCache[k].childStyle]_vars

\* A scrolling pass returned, without invoking the callback for it, a cell
\* whose cached original carries another key and the same style.
C15_Witness ==
  /\ sinceReset >= 1
  /\ opts.isScrolling
  /\ \E i \in 1..Len(renderedCells) :
       LET k == CellCoord(renderedCells[i])
       IN  /\ k \in DOMAIN cellCache
           /\ cellCache[k].kind = "element"
           /\ cellCache[k].key # renderedCells[i].key
           /\ cellCache[k].style = renderedCells[i].style
           /\ k \notin Range(CallCoords(calls))

\* The style computed for a coordinate in a pass with arguments o: the
\* placeholder if the coordinate is reported as unmeasured, else the size and
\* offset of its row and column with the offset adjustments added.
Recomputed(o, rowIndex, columnIndex) ==
  IF o.deferred /\ <<rowIndex, columnIndex>> \notin o.measured
  THEN [height |-> Auto, left |-> Px(0), position |-> "absolute", top |-> Px(0),
        width |-> Auto]
  ELSE [height |-> Px(o.rowSize),
        left |-> Px(columnIndex * o.columnSize + o.horizontalOffsetAdjustment),
        position |-> "absolute",
        top |-> Px(rowIndex * o.rowSize + o.verticalOffsetAdjustment),
        width |-> Px(o.columnSize)]

\* C18: in a pass with isScrolling false and no axis reporting adjusted
\* offsets, the style handed to the callback for a coordinate that has an entry
\* in the style cache is that entry; in a pass with isScrolling true no entry of
\* the style cache is used and the style handed to the callback is the
\* recomputed one (the placeholder for an unmeasured cell).
C18_StyleCacheRead ==
  [][\A i \in 1..Len(calls') :
       LET k == CallCoords(calls')[i]
       IN  /\ (/\ ~opts'.isScrolling
                /\ ~opts'.columnsAdjusted
                /\ ~opts'.rowsAdjusted
                /\ k \in DOMAIN styleCache)
               => calls'[i].style = styleCache[k]
           /\ opts'.isScrolling
               => /\ k \notin styleReads'
                  /\ calls'[i].style
                       = Recomputed(opts', calls'[i].rowIndex, calls'[i].columnIndex)]_vars

\* An idle pass handed the callback a style from the style cache that is not
\* the one its own arguments give.
C18_Witness ==
  /\ ~opts.isScrolling
  /\ \E i \in 1..Len(calls) :
       /\ CallCoords(calls)[i] \in styleReads
       /\ calls[i].style = styleCache[CallCoords(calls)[i]]
       /\ calls[i].style # Recomputed(opts, calls[i].rowIndex, calls[i].columnIndex)

\* C19: the recycler of a viewport persists for the viewport: of two
\* consecutive render passes of the viewport, every coordinate in both
\* rectangles has in the later pass the slot key it had in the earlier one,
\* also when the owner has replaced its content-instance cache between the two.
C19_StableAcrossPasses ==
  [][\A k \in DOMAIN reusableKeyMap \cap DOMAIN reusableKeyMap' :
       reusableKeyMap'[k] = reusableKeyMap[k]]_vars

\* Whether a returned cell lacks a position style: props.style of the cell,
\* or of its single child when the cell is a measurement wrapper.
C21_LacksStyle(c) == IF c.measurer THEN c.childStyle = Undefined ELSE c.style = Undefined

C21_SomeUnstyled(cells) == \E i \in 1..Len(cells) : C21_LacksStyle(cells[i])

\* C21: over any sequence of non-production render passes of a viewport, with
\* the owner replacing its content-instance cache in between, the
\* missing-style diagnostic is emitted at most once: a pass of a viewport not
\* yet warned emits it exactly when it returns a cell that lacks a style (the
\* child's style for a measurement wrapper) and sets the warned flag in the
\* same step; the flag is never cleared; once it is set no cell and no pass
\* emits the diagnostic again; and the pass returns a cell for every
\* coordinate of its rectangle, the cells that lack a style included.
C21_WarnedOnce ==
  [][/\ warned => (warned' /\ emitted' = emitted)
     /\ emitted' >= emitted
     /\ emitted' <= 1
     /\ (emitted' = emitted + 1) <=> (~warned /\ warned')
     /\ ~warned => (warned' <=> C21_SomeUnstyled(renderedCells'))
     /\ \A k \in RectKeySet(rect') : PositionOf(renderedCells', k) # 0]_vars

\* A viewport warned once whose latest pass returned a measurement wrapper
\* with an unstyled child and emitted nothing.
C21_Witness ==
  /\ warned
  /\ emitted = 1
  /\ warnings = 0
  /\ \E i \in 1..Len(renderedCells) :
       renderedCells[i].measurer /\ C21_LacksStyle(renderedCells[i])

C22_EmptyRect(r) ==
  \/ r.rowStopIndex = r.rowStartIndex - 1
  \/ r.columnStopIndex = r.columnStartIndex - 1

\* C22: a render pass with an empty rectangle (rowStopIndex = rowStartIndex - 1
\* or columnStopIndex = columnStartIndex - 1) yields an empty slot-key
\* assignment, which is also the one the recycler keeps, and an empty rendered
\* collection, invokes the callback zero times, emits no diagnostic, and
\* leaves the style cache, the content-instance cache and the warned flag of
\* the viewport as they were before the pass.
C22_EmptyPass ==
  [][(sinceReset' >= 1 /\ C22_EmptyRect(rect'))
     => /\ reusableKeyMap' = EmptyMap
        /\ lastMap' = EmptyMap
        /\ renderedCells' = <<>>
        /\ calls' = <<>>
        /\ warnings' = 0
        /\ styleCache' = styleCache
        /\ cellCache' = cellCache
        /\ warned' = warned]_vars

\* A pass over two rows and no column, on a warned viewport whose caches both
\* hold entries.
C22_Witness ==
  /\ sinceReset >= 1
  /\ rect.rowStartIndex = 0 /\ rect.rowStopIndex = 1
  /\ rect.columnStartIndex = 0 /\ rect.columnStopIndex = -1
  /\ reusableKeyMap = EmptyMap
  /\ cellCache # EmptyMap
  /\ styleCache # EmptyMap
  /\ warned

(***************************************************************************)
(* Properties of the overscan getter.                                      *)
(***************************************************************************)
\* C14: for cellCount >= 1, overscanCellsCount >= 0 and
\* 0 <= startIndex <= stopIndex <= cellCount - 1, in either scroll direction,
\* 0 <= overscanStartIndex <= startIndex and
\* stopIndex <= overscanStopIndex <= cellCount - 1, with overscanStartIndex the
\* larger of 0 and startIndex - overscanCellsCount and overscanStopIndex the
\* smaller of cellCount - 1 and stopIndex + overscanCellsCount.
C14_OverscanWithinCells ==
  overscanParams # Undefined =>
    LET q == overscanParams[1]
        res == overscanIndices[1]
        lo == q.startIndex - q.overscanCellsCount
        hi == q.stopIndex + q.overscanCellsCount
    IN  (/\ q.cellCount >= 1
         /\ q.overscanCellsCount >= 0
         /\ 0 <= q.startIndex
         /\ q.startIndex <= q.stopIndex
         /\ q.stopIndex <= q.cellCount - 1)
        => /\ 0 <= res.overscanStartIndex
           /\ res.overscanStartIndex <= q.startIndex
           /\ q.stopIndex <= res.overscanStopIndex
           /\ res.overscanStopIndex <= q.cellCount - 1
           /\ res.overscanStartIndex = (IF lo > 0 THEN lo ELSE 0)
           /\ res.overscanStopIndex = (IF hi < q.cellCount - 1 THEN hi ELSE q.cellCount - 1)

\* A forward scroll in the middle of an axis with one cell of overscan: the
\* range grows by one cell at the start, and the end of the axis cuts it at the stop.
C14_Witness ==
  /\ overscanParams # Undefined
  /\ overscanParams[1].scrollDirection = SCROLL_DIRECTION_FORWARD
  /\ overscanParams[1].cellCount = 4
  /\ overscanParams[1].overscanCellsCount = 2
  /\ overscanParams[1].startIndex = 1
  /\ overscanParams[1].stopIndex = 2
  /\ overscanIndices[1].overscanStartIndex = 0
  /\ overscanIndices[1].overscanStopIndex = 3

====
